---- MODULE Spec2Model ----
(***************************************************************************)
(* World / Chunk / Block data model of src/rs/world.rs.                    *)
(*                                                                         *)
(* A World is a record with the fields of `struct World`; a Chunk is a     *)
(* record with the fields of `struct Chunk`; a Block is the name of its    *)
(* variant.  Vec<T> is a sequence, so the Rust index i is the TLA+ index   *)
(* i + 1.  A ClientConnection is reduced to its id, the only field the     *)
(* World reads.  Every method is a pure operator from the World before the *)
(* call to an outcome [res, val, world]: the result kind, its payload and  *)
(* the World after the call.  res = "Panic" is an index out of range, an   *)
(* unwrap of None or a division by zero: the call aborts.  All arguments    *)
(* are u32 and no expression of the model leaves the u32 range for the     *)
(* arguments the model draws, so the arithmetic is exact.                  *)
(***************************************************************************)
EXTENDS Integers, Sequences, FiniteSets, TLC

VARIABLES world, before, last, pc, nops, par

vars == <<world, before, last, pc, nops, par>>

\* ---------------------------------------------------------------- bounds

\* width and height passed to the constructors range over 1..MaxDim
MaxDim == 3
\* chunk_size ranges over 0..MaxChunkSize
MaxChunkSize == 2
\* number of distinct calls that write the World in one behaviour
MaxOps == 3
\* how many times in a row the caller makes the same call
MaxRepeat == 2
\* a pass of the rayon pool runs on 1..MaxWorkers threads
MaxWorkers == 2

\* a coordinate far outside every world of the model
FarArg == 1000

PlayerIds == {1, 2}
BlockArgs == {"Stone"}
DimArgs == 1..MaxDim
ChunkSizeArgs == 0..MaxChunkSize
GrassArgs == 0..MaxDim
\* coordinate arguments along an axis of extent n: every valid coordinate, the
\* first one past the end, and one far outside
CoordArgs(n) == (0..n) \cup {FarArg}
\* <<width, height, chunk_size>> of the worlds the operations are called on:
\* square and not, wider than high and higher than wide, one and four cells
\* per chunk
WorldArgs == {<<2, 2, 1>>, <<3, 2, 1>>, <<1, 2, 1>>, <<2, 3, 1>>, <<4, 2, 2>>}
\* the worlds whose unload_all_for pass is followed worker by worker: the
\* pass reads no coordinate, so these differ in the number of lists only
PassWorldArgs == {<<2, 2, 1>>, <<1, 2, 1>>, <<4, 2, 2>>}

\* ------------------------------------------------------------------ Vec

InRange(idx, v) == idx < Len(v)

Contains(v, x) == \E i \in 1..Len(v) : v[i] = x

\* Vec::retain(|&con| id != con)
Retain(v, id) == SelectSeq(v, LAMBDA con : id # con)

\* ------------------------------------------------------------- outcomes

NoWorld == [width |-> 0, height |-> 0, chunk_size |-> 0, chunks |-> <<>>,
            width_chunks |-> 0, height_chunks |-> 0, players |-> <<>>,
            player_loaded |-> <<>>]

Ok(v, W) == [res |-> "Ok", val |-> <<v>>, world |-> W]
Unit(W) == [res |-> "Ok", val |-> <<>>, world |-> W]
OutOfBounds(x, y, W) == [res |-> "OutOfBounds", val |-> <<x, y>>, world |-> W]
MismatchedChunkSize(W) == [res |-> "MismatchedChunkSize", val |-> <<>>, world |-> W]
ChunkAlreadyLoaded(W) == [res |-> "ChunkAlreadyLoaded", val |-> <<>>, world |-> W]
Panic(W) == [res |-> "Panic", val |-> <<>>, world |-> W]

\* ---------------------------------------------------------------- Block

\* define_blocks!: the variants of Block and their discriminants
Block_id == [Air |-> 0, Grass |-> 1, Stone |-> 2, Log |-> 3, Leaves |-> 4,
             Water |-> 5, Wood |-> 6]

Block == DOMAIN Block_id

\* the largest u8
U8Max == 255

\* impl Into<Block> for u8 with the catch-all arm giving Wood
u8_into_Block_wood(code) ==
    IF \E name \in Block : Block_id[name] = code
    THEN CHOOSE name \in Block : Block_id[name] = code
    ELSE "Wood"

\* impl Into<Block> for u8: the arm of the variant declared with this id, the
\* catch-all arm for every other u8
u8_into_Block(code) ==
    IF \E name \in Block : Block_id[name] = code
    THEN CHOOSE name \in Block : Block_id[name] = code
    ELSE "Air"

\* impl Into<u8> for Block: self as u8
Block_into_u8(block) == Block_id[block]

\* ---------------------------------------------------------------- Chunk

Chunk_empty(size, chunk_x, chunk_y) ==
    [size |-> size, chunk_x |-> chunk_x, chunk_y |-> chunk_y,
     blocks |-> [i \in 1..size * size |-> "Air"]]

\* Chunk::set_block: res = "Panic" when idx is out of range of blocks
Chunk_set_block(chunk, chunk_pos_x, chunk_pos_y, block) ==
    LET idx == chunk_pos_y * chunk.size + chunk_pos_x
    IN  IF InRange(idx, chunk.blocks)
        THEN [res |-> "Ok", chunk |-> [chunk EXCEPT !.blocks[idx + 1] = block]]
        ELSE [res |-> "Panic", chunk |-> chunk]

\* ---------------------------------------------------------------- World

\* the closure generate_empty maps over 0..width_chunks * height_chunks
generate_chunk(width, height, chunk_size, idx) ==
    LET width_chunks == width \div chunk_size
        chunk_x == idx % width_chunks
        chunk_y == idx \div width_chunks
    IN  <<Chunk_empty(chunk_size, chunk_x, chunk_y), <<>>>>

\* collect taking the items in the order the workers made them
par_collect_arrival(items, order) ==
    [k \in 1..Len(order) |-> items[order[k] + 1][1]]

\* collect of an indexed parallel iterator: the item of index idx is element
\* idx of the result, whichever worker made it and when
par_collect(items, order) ==
    [i \in 1..Len(items) |-> items[i][1]]

\* the World generate_empty builds from what collect returns
generate_empty_from(width, height, chunk_size, collected) ==
    [width |-> width, height |-> height, chunk_size |-> chunk_size,
     chunks |-> [i \in 1..Len(collected) |-> collected[i][1]],
     width_chunks |-> width \div chunk_size,
     height_chunks |-> height \div chunk_size,
     players |-> <<>>,
     player_loaded |-> [i \in 1..Len(collected) |-> collected[i][2]]]

\* generate_empty rejecting only when both extents are indivisible
generate_empty_both(width, height, chunk_size) ==
    IF chunk_size = 0 THEN Panic(NoWorld)
    ELSE IF width % chunk_size # 0 /\ height % chunk_size # 0
    THEN MismatchedChunkSize(NoWorld)
    ELSE LET width_chunks == width \div chunk_size
             height_chunks == height \div chunk_size
             n == width_chunks * height_chunks
         IN  Unit([width |-> width, height |-> height, chunk_size |-> chunk_size,
                   chunks |-> [i \in 1..n |->
                                  Chunk_empty(chunk_size, (i - 1) % width_chunks,
                                              (i - 1) \div width_chunks)],
                   width_chunks |-> width_chunks,
                   height_chunks |-> height_chunks,
                   players |-> <<>>,
                   player_loaded |-> [i \in 1..n |-> <<>>]])

generate_empty(width, height, chunk_size) ==
    IF chunk_size = 0 THEN Panic(NoWorld)
    ELSE IF width % chunk_size # 0 \/ height % chunk_size # 0
    THEN MismatchedChunkSize(NoWorld)
    ELSE LET width_chunks == width \div chunk_size
             height_chunks == height \div chunk_size
             n == width_chunks * height_chunks
         IN  Unit([width |-> width, height |-> height, chunk_size |-> chunk_size,
                   chunks |-> [i \in 1..n |->
                                  Chunk_empty(chunk_size, (i - 1) % width_chunks,
                                              (i - 1) \div width_chunks)],
                   width_chunks |-> width_chunks,
                   height_chunks |-> height_chunks,
                   players |-> <<>>,
                   player_loaded |-> [i \in 1..n |-> <<>>]])

check_out_of_bounds_chunk(W, chunk_x, chunk_y) ==
    IF chunk_x > W.width \div W.chunk_size \/ chunk_y > W.height \div W.chunk_size
    THEN OutOfBounds(chunk_x, chunk_y, W)
    ELSE Unit(W)

check_out_of_bounds_block(W, x, y) ==
    IF x >= W.width /\ y >= W.height
    THEN OutOfBounds(x, y, W)
    ELSE Unit(W)

\* the index expression (chunk_y * self.height_chunks + chunk_x) as usize
chunk_index(W, chunk_x, chunk_y) == chunk_y * W.height_chunks + chunk_x

\* Ok carries the index of the slot of chunks the &mut borrows
get_chunk_mut(W, chunk_x, chunk_y) ==
    LET c == check_out_of_bounds_chunk(W, chunk_x, chunk_y)
        idx == chunk_index(W, chunk_x, chunk_y)
    IN  IF c.res # "Ok" THEN c
        ELSE IF ~InRange(idx, W.chunks) THEN Panic(W)
        ELSE Ok(idx, W)

\* Ok carries the chunk the & refers to
get_chunk(W, chunk_x, chunk_y) ==
    LET c == check_out_of_bounds_chunk(W, chunk_x, chunk_y)
        idx == chunk_index(W, chunk_x, chunk_y)
    IN  IF c.res # "Ok" THEN c
        ELSE IF ~InRange(idx, W.chunks) THEN Panic(W)
        ELSE Ok(W.chunks[idx + 1], W)

get_chunk_block_is_in(W, pos_x, pos_y) ==
    LET c == check_out_of_bounds_block(W, pos_x, pos_y)
    IN  IF c.res # "Ok" THEN c
        ELSE Ok(<<pos_x \div W.chunk_size, pos_y \div W.chunk_size>>, W)

set_block(W, pos_x, pos_y, block) ==
    LET c == check_out_of_bounds_block(W, pos_x, pos_y)
        g == get_chunk_block_is_in(W, pos_x, pos_y)
        chunk_x == g.val[1][1]
        chunk_y == g.val[1][2]
        pos_inside_chunk_x == pos_x - chunk_x * W.chunk_size
        pos_inside_chunk_y == pos_y - chunk_y * W.chunk_size
        m == get_chunk_mut(W, chunk_x, chunk_y)
        idx == m.val[1]
        chunk == Chunk_set_block(W.chunks[idx + 1], pos_inside_chunk_x,
                                 pos_inside_chunk_y, block)
    IN  IF c.res # "Ok" THEN c
        ELSE IF g.res # "Ok" THEN g
        ELSE IF m.res # "Ok" THEN m
        ELSE IF chunk.res # "Ok" THEN Panic(W)
        ELSE Unit([W EXCEPT !.chunks[idx + 1] = chunk.chunk])

\* mark_chunk_loaded_by_id without the test for an id already in the list
mark_chunk_loaded_by_id_unchecked(W, chunk_x, chunk_y, player_loading_id) ==
    LET c == check_out_of_bounds_chunk(W, chunk_x, chunk_y)
        idx == chunk_index(W, chunk_x, chunk_y)
        players_loading_chunk == W.player_loaded[idx + 1]
        W2 == IF Contains(W.players, player_loading_id)
              THEN [W EXCEPT !.player_loaded[idx + 1] =
                                 Append(players_loading_chunk, player_loading_id)]
              ELSE W
    IN  IF c.res # "Ok" THEN c
        ELSE IF ~InRange(idx, W.player_loaded) THEN Panic(W)
        ELSE get_chunk(W2, chunk_x, chunk_y)

mark_chunk_loaded_by_id(W, chunk_x, chunk_y, player_loading_id) ==
    LET c == check_out_of_bounds_chunk(W, chunk_x, chunk_y)
        idx == chunk_index(W, chunk_x, chunk_y)
        players_loading_chunk == W.player_loaded[idx + 1]
        W2 == IF Contains(W.players, player_loading_id)
              THEN [W EXCEPT !.player_loaded[idx + 1] =
                                 Append(players_loading_chunk, player_loading_id)]
              ELSE W
    IN  IF c.res # "Ok" THEN c
        ELSE IF ~InRange(idx, W.player_loaded) THEN Panic(W)
        ELSE IF Contains(players_loading_chunk, player_loading_id)
        THEN ChunkAlreadyLoaded(W)
        ELSE get_chunk(W2, chunk_x, chunk_y)

unmark_loaded_chunk_for(W, chunk_x, chunk_y, player_loading_id) ==
    LET c == check_out_of_bounds_chunk(W, chunk_x, chunk_y)
        idx == chunk_index(W, chunk_x, chunk_y)
    IN  IF c.res # "Ok" THEN c
        ELSE IF ~InRange(idx, W.player_loaded) THEN Panic(W)
        ELSE Unit([W EXCEPT !.player_loaded[idx + 1] =
                                Retain(W.player_loaded[idx + 1], player_loading_id)])

\* the closure of unload_all_for on the first list whatever idx is
unload_chunk_first(W, idx, player_loading_id) ==
    [W EXCEPT !.player_loaded[1] = Retain(W.player_loaded[1], player_loading_id)]

\* the closure unload_all_for runs for_each element of player_loaded
unload_chunk(W, idx, player_loading_id) ==
    [W EXCEPT !.player_loaded[idx + 1] =
                  Retain(W.player_loaded[idx + 1], player_loading_id)]

\* unload_all_for with retain applied to the list of the first chunk only
unload_all_for_first(W, player_loading_id) ==
    Unit([W EXCEPT !.player_loaded =
                       [i \in 1..Len(W.player_loaded) |->
                           IF i = 1
                           THEN Retain(W.player_loaded[i], player_loading_id)
                           ELSE W.player_loaded[i]]])

\* unload_all_for with retain applied to the table instead of to each list
unload_all_for_table(W, player_loading_id) ==
    Unit([W EXCEPT !.player_loaded =
                       SelectSeq(W.player_loaded,
                                 LAMBDA l : ~Contains(l, player_loading_id))])

unload_all_for(W, player_loading_id) ==
    Unit([W EXCEPT !.player_loaded =
                       [i \in 1..Len(W.player_loaded) |->
                           Retain(W.player_loaded[i], player_loading_id)]])

\* Ok carries the ids of the clients found, in the order of the subscriber list
get_list_of_players_loading_chunk(W, chunk_x, chunk_y) ==
    LET g == get_chunk(W, chunk_x, chunk_y)
        idx == chunk_index(W, chunk_x, chunk_y)
        players_loading_ids == W.player_loaded[idx + 1]
    IN  IF g.res # "Ok" THEN g
        ELSE IF ~InRange(idx, W.player_loaded) THEN Panic(W)
        ELSE IF \E i \in 1..Len(players_loading_ids) :
                    ~Contains(W.players, players_loading_ids[i])
        THEN Panic(W)
        ELSE Ok(players_loading_ids, W)

tick(W) == Unit(W)

\* the set_block calls of generate_flat, in program order: <<x, y, block>>
flat_writes(width, grass_level) ==
    LET n == IF grass_level # 0 THEN width * (grass_level - 1) ELSE 0
    IN  [idx \in 1..n |-> <<(idx - 1) % width, (idx - 1) \div width, "Stone">>]
        \o [x \in 1..width |-> <<x - 1, grass_level, "Grass">>]

\* empty_world.set_block(x, y, block)? for the writes from the i-th on
RECURSIVE apply_writes(_, _, _)
apply_writes(W, writes, i) ==
    IF i > Len(writes) THEN Unit(W)
    ELSE LET r == set_block(W, writes[i][1], writes[i][2], writes[i][3])
         IN  IF r.res # "Ok" THEN [r EXCEPT !.world = NoWorld]
             ELSE apply_writes(r.world, writes, i + 1)

generate_flat(width, height, chunk_size, grass_level) ==
    LET e == generate_empty(width, height, chunk_size)
    IN  IF e.res # "Ok" THEN e
        ELSE apply_writes(e.world, flat_writes(width, grass_level), 1)

\* ------------------------------------------------------------ the caller
\* players is a pub field: the network layer pushes a client when it connects
\* and removes it when it disconnects.

connect(W, id) == Unit([W EXCEPT !.players = Append(W.players, id)])

disconnect(W, id) == Unit([W EXCEPT !.players = Retain(W.players, id)])

\* ---------------------------------------------------------------- state
\* world  : the World (NoWorld before construction and when construction failed)
\* before : the World as it was when the call in last was made
\* last   : the call the caller made last: its name, arguments, result kind and
\*          payload, how many times in a row it has been made (rep) and the
\*          result kind of the same call made just before it (prev)
\* pc     : "start" before construction, "ready" when the caller may make any
\*          call, "returned" when it holds the result of last, "failed" when
\*          construction returned an error, "aborted" after a panic
\* nops   : number of distinct calls that write the World made so far
\* par    : the rayon pass in progress, when the model follows its workers:
\*          the method running it (op) and its arguments, the number of
\*          worker threads, the indices not yet taken (todo), those a worker
\*          holds (running), what map produced per index (items) and the
\*          indices in the order their work was done (order); pc is
\*          "running" during the pass

NoPar == [op |-> "none", args |-> <<>>, workers |-> 0, todo |-> {},
          running |-> {}, items |-> <<>>, order |-> <<>>]

Idle == [op |-> "idle", args |-> <<>>, res |-> "Ok", val |-> <<>>, rep |-> 0,
         prev |-> "none"]

After(out) ==
    IF out.res = "Panic" THEN "aborted" ELSE "returned"

Callable == pc \in {"ready", "returned"}

\* the caller may make any call when ready, and may make the call it has just
\* made once more before it looks at anything else
CanCall(op, args) ==
    \/ pc = "ready"
    \/ pc = "returned" /\ last.op = op /\ last.args = args /\ last.rep < MaxRepeat

Record(op, args, out) ==
    [op |-> op, args |-> args, res |-> out.res, val |-> out.val,
     rep |-> IF pc = "returned" THEN last.rep + 1 ELSE 1,
     prev |-> IF pc = "returned" THEN last.res ELSE "none"]

\* a call of a method taking &self, or &mut self without writing
Query(op, args, out) ==
    /\ CanCall(op, args)
    /\ last' = Record(op, args, out)
    /\ before' = world
    /\ world' = out.world
    /\ pc' = After(out)
    /\ UNCHANGED <<nops, par>>

\* a call of a method that writes the World
Mutation(op, args, out) ==
    /\ CanCall(op, args)
    /\ pc = "ready" => nops < MaxOps
    /\ last' = Record(op, args, out)
    /\ before' = world
    /\ world' = out.world
    /\ pc' = After(out)
    /\ nops' = IF pc = "ready" THEN nops + 1 ELSE nops
    /\ UNCHANGED par

Constructed(op, args, out) ==
    /\ out.res = "Ok"
    /\ world = out.world
    /\ before = NoWorld
    /\ last = [op |-> op, args |-> args, res |-> out.res, val |-> out.val,
               rep |-> 1, prev |-> "none"]
    /\ pc = "ready"
    /\ nops = 0
    /\ par = NoPar

\* the state after a successful World::generate_empty
Init ==
    \E a \in WorldArgs :
        Constructed("generate_empty", a, generate_empty(a[1], a[2], a[3]))

GetChunk ==
    \E chunk_x \in CoordArgs(world.width_chunks),
       chunk_y \in CoordArgs(world.height_chunks) :
        Query("get_chunk", <<chunk_x, chunk_y>>, get_chunk(world, chunk_x, chunk_y))

GetChunkMut ==
    \E chunk_x \in CoordArgs(world.width_chunks),
       chunk_y \in CoordArgs(world.height_chunks) :
        Query("get_chunk_mut", <<chunk_x, chunk_y>>,
              get_chunk_mut(world, chunk_x, chunk_y))

GetChunkBlockIsIn ==
    \E pos_x \in CoordArgs(world.width), pos_y \in CoordArgs(world.height) :
        Query("get_chunk_block_is_in", <<pos_x, pos_y>>,
              get_chunk_block_is_in(world, pos_x, pos_y))

GetListOfPlayersLoadingChunk ==
    \E chunk_x \in CoordArgs(world.width_chunks),
       chunk_y \in CoordArgs(world.height_chunks) :
        Query("get_list_of_players_loading_chunk", <<chunk_x, chunk_y>>,
              get_list_of_players_loading_chunk(world, chunk_x, chunk_y))

Tick ==
    /\ Callable
    /\ Query("tick", <<>>, tick(world))

SetBlock ==
    \E pos_x \in CoordArgs(world.width), pos_y \in CoordArgs(world.height),
       block \in BlockArgs :
        Mutation("set_block", <<pos_x, pos_y, block>>,
                 set_block(world, pos_x, pos_y, block))

MarkChunkLoadedById ==
    \E chunk_x \in CoordArgs(world.width_chunks),
       chunk_y \in CoordArgs(world.height_chunks), id \in PlayerIds :
        Mutation("mark_chunk_loaded_by_id", <<chunk_x, chunk_y, id>>,
                 mark_chunk_loaded_by_id(world, chunk_x, chunk_y, id))

UnmarkLoadedChunkFor ==
    \E chunk_x \in CoordArgs(world.width_chunks),
       chunk_y \in CoordArgs(world.height_chunks), id \in PlayerIds :
        Mutation("unmark_loaded_chunk_for", <<chunk_x, chunk_y, id>>,
                 unmark_loaded_chunk_for(world, chunk_x, chunk_y, id))

UnloadAllFor ==
    /\ Callable
    /\ \E id \in PlayerIds :
          Mutation("unload_all_for", <<id>>, unload_all_for(world, id))

Connect ==
    /\ Callable
    /\ \E id \in PlayerIds :
          /\ ~Contains(world.players, id)
          /\ Mutation("connect", <<id>>, connect(world, id))

Disconnect ==
    /\ Callable
    /\ \E id \in PlayerIds :
          /\ Contains(world.players, id)
          /\ Mutation("disconnect", <<id>>, disconnect(world, id))

\* the caller has looked at the result of last
Return ==
    /\ pc = "returned"
    /\ pc' = "ready"
    /\ last' = Idle
    /\ before' = world
    /\ par' = NoPar
    /\ UNCHANGED <<world, nops>>

\* The calls that write the World or read what they write.  The accessors that
\* read only what construction wrote are called in SpecGen below.
Next ==
    \/ GetListOfPlayersLoadingChunk
    \/ Tick
    \/ SetBlock
    \/ MarkChunkLoadedById
    \/ UnmarkLoadedChunkFor
    \/ UnloadAllFor
    \/ Connect
    \/ Disconnect
    \/ Return

Spec == Init /\ [][Next]_vars

\* ------------------------------- construction and the read-only accessors

InitGen ==
    /\ world = NoWorld
    /\ before = NoWorld
    /\ last = Idle
    /\ pc = "start"
    /\ nops = 0
    /\ par = NoPar

Construction(op, args, out) ==
    /\ pc = "start"
    /\ last' = [op |-> op, args |-> args, res |-> out.res, val |-> out.val,
                rep |-> 1, prev |-> "none"]
    /\ before' = world
    /\ world' = out.world
    /\ pc' = IF out.res = "Ok" THEN "ready"
             ELSE IF out.res = "Panic" THEN "aborted" ELSE "failed"
    /\ UNCHANGED <<nops, par>>

GenerateEmpty ==
    /\ pc = "start"
    /\ \E width, height \in DimArgs, chunk_size \in ChunkSizeArgs :
          Construction("generate_empty", <<width, height, chunk_size>>,
                       generate_empty(width, height, chunk_size))

GenerateFlat ==
    /\ pc = "start"
    /\ \E width, height \in DimArgs, chunk_size \in ChunkSizeArgs,
          grass_level \in GrassArgs :
          Construction("generate_flat", <<width, height, chunk_size, grass_level>>,
                       generate_flat(width, height, chunk_size, grass_level))

NextGen ==
    \/ GenerateEmpty
    \/ GenerateFlat
    \/ GetChunk
    \/ GetChunkMut
    \/ GetChunkBlockIsIn
    \/ Return

SpecGen == InitGen /\ [][NextGen]_vars

\* ------------------------------------------------ the disciplined caller
\* A caller that connects each id once and removes a client only right after
\* unload_all_for for the id of that client has returned.  The removal is
\* the second half of what the caller does when a client leaves, so before
\* stays the World the unload_all_for was called on.

DisconnectAfterUnload ==
    /\ pc = "returned"
    /\ last.op = "unload_all_for"
    /\ Contains(world.players, last.args[1])
    /\ last' = [op |-> "disconnect", args |-> last.args, res |-> "Ok",
                val |-> <<>>, rep |-> 1, prev |-> "none"]
    /\ world' = disconnect(world, last.args[1]).world
    /\ UNCHANGED <<before, pc, nops, par>>

NextSession ==
    \/ GetListOfPlayersLoadingChunk
    \/ MarkChunkLoadedById
    \/ UnmarkLoadedChunkFor
    \/ UnloadAllFor
    \/ Connect
    \/ DisconnectAfterUnload
    \/ Return

SpecSession == Init /\ [][NextSession]_vars

\* ------------------------------------------------- the parallel passes
\* generate_empty and unload_all_for hand the indices of a range or of
\* player_loaded to the threads of the rayon pool.  A worker takes an index
\* nobody has taken, does the work of the closure for it, and takes another;
\* the caller goes on when every index is done.

ParPass(op, args, workers, n) ==
    [op |-> op, args |-> args, workers |-> workers, todo |-> 0..n - 1,
     running |-> {}, items |-> [i \in 1..n |-> <<>>], order |-> <<>>]

ParDone == par.todo = {} /\ par.running = {}

\* a free worker takes an index
ParTake ==
    /\ pc = "running"
    /\ Cardinality(par.running) < par.workers
    /\ \E idx \in par.todo :
          par' = [par EXCEPT !.todo = @ \ {idx}, !.running = @ \cup {idx}]
    /\ UNCHANGED <<world, before, last, pc, nops>>

\* generate_empty up to the start of the pass, for the arguments that pass
\* the divisibility test
ParGenerateEmpty ==
    /\ pc = "start"
    /\ \E a \in WorldArgs, workers \in 1..MaxWorkers :
          /\ a[3] # 0
          /\ a[1] % a[3] = 0 /\ a[2] % a[3] = 0
          /\ par' = ParPass("generate_empty", a, workers,
                            (a[1] \div a[3]) * (a[2] \div a[3]))
    /\ pc' = "running"
    /\ UNCHANGED <<world, before, last, nops>>

\* a worker makes the chunk and the subscriber list of an index it holds
ParGenerateChunk ==
    /\ pc = "running"
    /\ par.op = "generate_empty"
    /\ \E idx \in par.running :
          par' = [par EXCEPT
                     !.running = @ \ {idx},
                     !.items[idx + 1] =
                         <<generate_chunk(par.args[1], par.args[2], par.args[3], idx)>>,
                     !.order = Append(@, idx)]
    /\ UNCHANGED <<world, before, last, pc, nops>>

\* collect returns and generate_empty returns the World
ParGenerateCollect ==
    /\ pc = "running"
    /\ par.op = "generate_empty"
    /\ ParDone
    /\ world' = generate_empty_from(par.args[1], par.args[2], par.args[3],
                                    par_collect(par.items, par.order))
    /\ before' = world
    /\ last' = [op |-> "generate_empty", args |-> par.args, res |-> "Ok",
                val |-> <<>>, rep |-> 1, prev |-> "none"]
    /\ pc' = "returned"
    /\ UNCHANGED <<nops, par>>

NextParGen ==
    \/ ParGenerateEmpty
    \/ ParTake
    \/ ParGenerateChunk
    \/ ParGenerateCollect
    \/ Return

SpecParGen == InitGen /\ [][NextParGen]_vars

\* unload_all_for up to the start of the pass
ParUnloadAllFor ==
    /\ Callable
    /\ \E id \in PlayerIds, workers \in 1..MaxWorkers :
          /\ CanCall("unload_all_for", <<id>>)
          /\ pc = "ready" => nops < MaxOps
          /\ last' = Record("unload_all_for", <<id>>,
                            [res |-> "Running", val |-> <<>>])
          /\ par' = ParPass("unload_all_for", <<id>>, workers,
                            Len(world.player_loaded))
    /\ before' = world
    /\ pc' = "running"
    /\ nops' = IF pc = "ready" THEN nops + 1 ELSE nops
    /\ UNCHANGED world

\* a worker runs retain on the list of an index it holds
ParUnloadChunk ==
    /\ pc = "running"
    /\ par.op = "unload_all_for"
    /\ \E idx \in par.running :
          /\ world' = unload_chunk(world, idx, par.args[1])
          /\ par' = [par EXCEPT !.running = @ \ {idx}, !.order = Append(@, idx)]
    /\ UNCHANGED <<before, last, pc, nops>>

\* for_each returns and unload_all_for returns
ParUnloadJoin ==
    /\ pc = "running"
    /\ par.op = "unload_all_for"
    /\ ParDone
    /\ last' = [last EXCEPT !.res = "Ok"]
    /\ pc' = "returned"
    /\ UNCHANGED <<world, before, nops, par>>

NextParUnload ==
    \/ Connect
    \/ MarkChunkLoadedById
    \/ ParUnloadAllFor
    \/ ParTake
    \/ ParUnloadChunk
    \/ ParUnloadJoin
    \/ Return

\* the state after a successful World::generate_empty, for the worlds of
\* PassWorldArgs
InitParUnload ==
    \E a \in PassWorldArgs :
        Constructed("generate_empty", a, generate_empty(a[1], a[2], a[3]))

SpecParUnload == InitParUnload /\ [][NextParUnload]_vars

\* --------------------------------------------------- the Block conversions

InitBlock ==
    /\ world = NoWorld
    /\ before = NoWorld
    /\ last = Idle
    /\ pc = "ready"
    /\ nops = 0
    /\ par = NoPar

U8IntoBlock ==
    /\ Callable
    /\ \E code \in 0..U8Max :
          Query("u8_into_Block", <<code>>, Ok(u8_into_Block(code), world))

BlockIntoU8 ==
    /\ Callable
    /\ \E block \in Block :
          Query("Block_into_u8", <<block>>, Ok(Block_into_u8(block), world))

NextBlock ==
    \/ U8IntoBlock
    \/ BlockIntoU8
    \/ Return

SpecBlock == InitBlock /\ [][NextBlock]_vars

\* =============================================================== claims
\* In a state reached by a call, last holds the call and its result, before the
\* World the call was made on and world the World it left.

ValidChunk(W, chunk_x, chunk_y) ==
    chunk_x < W.width_chunks /\ chunk_y < W.height_chunks

ValidCell(W, x, y) == x < W.width /\ y < W.height

\* the row-major index of chunk (chunk_x, chunk_y)
RowMajor(W, chunk_x, chunk_y) == chunk_y * W.width_chunks + chunk_x

Divisible(width, height, chunk_size) ==
    width % chunk_size = 0 /\ height % chunk_size = 0

\* C1: for every valid chunk coordinate of every world, square or not,
\* get_chunk and get_chunk_mut succeed and give the chunk stored at the
\* row-major index cy * width_chunks + cx, whose fields are chunk_x = cx and
\* chunk_y = cy.
C1_ChunkAtRowMajorIndex ==
    (/\ last.op \in {"get_chunk", "get_chunk_mut"}
     /\ ValidChunk(before, last.args[1], last.args[2]))
    => /\ last.res = "Ok"
       /\ LET i == RowMajor(before, last.args[1], last.args[2])
              chunk == IF last.op = "get_chunk" THEN last.val[1]
                       ELSE before.chunks[last.val[1] + 1]
          IN  /\ chunk = before.chunks[i + 1]
              /\ chunk.chunk_x = last.args[1]
              /\ chunk.chunk_y = last.args[2]
              /\ last.op = "get_chunk_mut" => last.val[1] = i

\* the World W with block written to cell (x, y) and nothing else changed
WithBlock(W, x, y, block) ==
    LET chunk_x == x \div W.chunk_size
        chunk_y == y \div W.chunk_size
        local == (y - chunk_y * W.chunk_size) * W.chunk_size
                 + (x - chunk_x * W.chunk_size)
    IN  [W EXCEPT !.chunks[RowMajor(W, chunk_x, chunk_y) + 1].blocks[local + 1] = block]

\* C2: for every cell (x, y) inside the world, set_block(x, y, b) returns Ok,
\* the chunk (x div chunk_size, y div chunk_size) then holds b at the local
\* index of the cell, and every other block slot keeps its value.
C2_SetBlockWritesTheCell ==
    (/\ last.op = "set_block"
     /\ ValidCell(before, last.args[1], last.args[2]))
    => /\ last.res = "Ok"
       /\ world = WithBlock(before, last.args[1], last.args[2], last.args[3])

\* C3: set_block and get_chunk_block_is_in fail with OutOfBounds(x, y) as soon
\* as one of x >= width, y >= height holds.
C3_CellOutOfBoundsRejected ==
    (/\ last.op \in {"set_block", "get_chunk_block_is_in"}
     /\ ~ValidCell(before, last.args[1], last.args[2]))
    => /\ last.res = "OutOfBounds"
       /\ last.val = <<last.args[1], last.args[2]>>

ChunkOps ==
    {"get_chunk", "get_chunk_mut", "mark_chunk_loaded_by_id",
     "unmark_loaded_chunk_for", "get_list_of_players_loading_chunk"}

\* C4: the five chunk-coordinate methods fail with OutOfBounds(chunk_x, chunk_y)
\* for every chunk coordinate with chunk_x >= width_chunks or
\* chunk_y >= height_chunks, the boundary values included.
C4_ChunkOutOfBoundsRejected ==
    (/\ last.op \in ChunkOps
     /\ ~ValidChunk(before, last.args[1], last.args[2]))
    => /\ last.res = "OutOfBounds"
       /\ last.val = <<last.args[1], last.args[2]>>

\* C5: a set_block with a cell outside the world, and a
\* mark_chunk_loaded_by_id or unmark_loaded_chunk_for with a chunk outside the
\* chunk grid, leave the whole World as it was.
C5_OutOfBoundsCallChangesNothing ==
    (\/ /\ last.op = "set_block"
        /\ ~ValidCell(before, last.args[1], last.args[2])
     \/ /\ last.op \in {"mark_chunk_loaded_by_id", "unmark_loaded_chunk_for"}
        /\ ~ValidChunk(before, last.args[1], last.args[2]))
    => world = before

\* C6: no call of get_chunk, get_chunk_mut, set_block,
\* mark_chunk_loaded_by_id, unmark_loaded_chunk_for or
\* get_list_of_players_loading_chunk on a generated world aborts: each returns
\* Ok or a WorldError.
C6_NoCallAborts ==
    last.op \in ChunkOps \cup {"set_block"} => last.res # "Panic"

\* C7: for positive chunk_size, generate_empty fails with MismatchedChunkSize
\* and builds no World when width or height is not a multiple of chunk_size,
\* and succeeds when both are; generate_flat fails with MismatchedChunkSize and
\* builds no World in exactly the same cases.
C7_MismatchedChunkSize ==
    (/\ last.op \in {"generate_empty", "generate_flat"}
     /\ last.args[3] > 0)
    => LET width == last.args[1]
           height == last.args[2]
           chunk_size == last.args[3]
       IN  /\ ~Divisible(width, height, chunk_size)
                => last.res = "MismatchedChunkSize" /\ world = NoWorld
           /\ Divisible(width, height, chunk_size)
                => /\ last.res # "MismatchedChunkSize"
                   /\ last.op = "generate_empty"
                        => /\ last.res = "Ok"
                           /\ world.width = width
                           /\ world.height = height
                           /\ world.chunk_size = chunk_size

\* C7 witness: a constructor call rejected although height is a multiple of
\* chunk_size, because width is not
C7_Witness ==
    /\ last.op \in {"generate_empty", "generate_flat"}
    /\ last.args[3] > 1
    /\ last.args[1] % last.args[3] # 0
    /\ last.args[2] % last.args[3] = 0
    /\ last.res = "MismatchedChunkSize"
    /\ pc = "failed"

\* C8: in the world generate_empty returns and in every state reached from it,
\* chunks has width_chunks * height_chunks entries, chunks[i] has
\* chunk_x = i mod width_chunks and chunk_y = i div width_chunks, each chunk
\* has size^2 blocks and the subscriber table is as long as chunks; in the
\* fresh world every block is Air and every subscriber list is empty.
C8_WorldStructure ==
    /\ Len(world.chunks) = world.width_chunks * world.height_chunks
    /\ Len(world.player_loaded) = Len(world.chunks)
    /\ \A i \in 1..Len(world.chunks) :
          /\ world.chunks[i].chunk_x = (i - 1) % world.width_chunks
          /\ world.chunks[i].chunk_y = (i - 1) \div world.width_chunks
          /\ Len(world.chunks[i].blocks) = world.chunks[i].size * world.chunks[i].size
    /\ last.op = "generate_empty"
         => /\ \A i \in 1..Len(world.chunks) :
                 \A j \in 1..Len(world.chunks[i].blocks) :
                     world.chunks[i].blocks[j] = "Air"
            /\ \A i \in 1..Len(world.player_loaded) : world.player_loaded[i] = <<>>

\* C8 witness: a world that is not square and has several cells per chunk,
\* after a block was placed and a connected player loaded a chunk
C8_Witness ==
    /\ world.width_chunks # world.height_chunks
    /\ world.chunk_size > 1
    /\ last.op = "mark_chunk_loaded_by_id"
    /\ last.res = "Ok"
    /\ before.player_loaded # world.player_loaded
    /\ \E i \in 1..Len(world.chunks) :
          \E j \in 1..Len(world.chunks[i].blocks) : world.chunks[i].blocks[j] # "Air"

\* C9 as claimed: for every valid chunk and every player id, the second of two
\* mark_chunk_loaded_by_id calls in a row with the same chunk and player fails
\* with ChunkAlreadyLoaded and leaves the World as it was.
C9_SecondMarkFails ==
    (/\ last.op = "mark_chunk_loaded_by_id"
     /\ last.rep >= 2
     /\ ValidChunk(before, last.args[1], last.args[2]))
    => /\ last.res = "ChunkAlreadyLoaded"
       /\ world = before

\* C9 as amended: the same for every player id that is the id of a client in
\* players.
C9_SecondMarkOfConnectedFails ==
    (/\ last.op = "mark_chunk_loaded_by_id"
     /\ last.rep >= 2
     /\ ValidChunk(before, last.args[1], last.args[2])
     /\ Contains(before.players, last.args[3]))
    => /\ last.res = "ChunkAlreadyLoaded"
       /\ world = before

\* C9 witness: the second call follows a first one that returned Ok and
\* subscribed the player
C9_Witness ==
    /\ last.op = "mark_chunk_loaded_by_id"
    /\ last.rep = 2
    /\ last.prev = "Ok"
    /\ ValidChunk(before, last.args[1], last.args[2])
    /\ Contains(before.players, last.args[3])
    /\ last.res = "ChunkAlreadyLoaded"

\* C10: mark_chunk_loaded_by_id on a valid chunk with a player id that matches
\* no client in players returns Ok with the chunk at the requested
\* coordinates and leaves every subscriber list as it was, however often it
\* is repeated.
C10_GhostMarkReturnsChunk ==
    (/\ last.op = "mark_chunk_loaded_by_id"
     /\ ValidChunk(before, last.args[1], last.args[2])
     /\ ~Contains(before.players, last.args[3]))
    => /\ last.res = "Ok"
       /\ last.val[1].chunk_x = last.args[1]
       /\ last.val[1].chunk_y = last.args[2]
       /\ world.player_loaded = before.player_loaded

\* id is in no chunk's subscriber list
Absent(W, id) ==
    \A i \in 1..Len(W.player_loaded) : ~Contains(W.player_loaded[i], id)

\* C11: unload_all_for(id) leaves id in no chunk's subscriber list, and from
\* then on every call other than a mark_chunk_loaded_by_id for id that returns
\* Ok keeps it so; a list that get_list_of_players_loading_chunk returns
\* meanwhile does not hold id.
C11_UnloadedUntilMarked ==
    [][\A id \in PlayerIds :
          /\ (last'.op = "unload_all_for" /\ last'.args = <<id>>)
                => Absent(world', id)
          /\ (/\ Absent(world, id)
              /\ ~(/\ last'.op = "mark_chunk_loaded_by_id"
                   /\ last'.res = "Ok"
                   /\ last'.args[3] = id))
                => Absent(world', id)
          /\ (/\ Absent(world, id)
              /\ last'.op = "get_list_of_players_loading_chunk"
              /\ last'.res = "Ok")
                => ~Contains(last'.val[1], id)]_vars

\* C11 witness: unload_all_for(id) was called while id subscribed to a chunk
\* other than the first, and id is in no list now
C11_Witness ==
    /\ last.op = "unload_all_for"
    /\ \E i \in 2..Len(before.player_loaded) :
          Contains(before.player_loaded[i], last.args[1])
    /\ Absent(world, last.args[1])

\* C12: unmark_loaded_chunk_for on a valid chunk returns Ok and removes the
\* id from the subscriber list of that chunk, the one at its row-major index;
\* every other list, the players and all blocks are as before.
C12_UnmarkRemovesOnlyThatSubscription ==
    (/\ last.op = "unmark_loaded_chunk_for"
     /\ ValidChunk(before, last.args[1], last.args[2]))
    => /\ last.res = "Ok"
       /\ world = [before EXCEPT
                     !.player_loaded[RowMajor(before, last.args[1], last.args[2]) + 1] =
                         Retain(@, last.args[3])]

\* the block of cell (x, y): the chunks in row-major order, the blocks of a
\* chunk in row-major order
BlockAt(W, x, y) ==
    LET chunk_x == x \div W.chunk_size
        chunk_y == y \div W.chunk_size
        local == (y - chunk_y * W.chunk_size) * W.chunk_size
                 + (x - chunk_x * W.chunk_size)
    IN  W.chunks[RowMajor(W, chunk_x, chunk_y) + 1].blocks[local + 1]

\* generate_flat was called with a positive chunk_size that divides width and
\* height
FlatOfValidWorld ==
    /\ last.op = "generate_flat"
    /\ last.args[3] > 0
    /\ Divisible(last.args[1], last.args[2], last.args[3])

\* C13: for a valid world and 0 <= grass_level < height, generate_flat
\* returns a World whose cells are Stone in every row below grass_level, Grass
\* in row grass_level and Air in every row above it.
C13_FlatStoneBelowGrass ==
    (FlatOfValidWorld /\ last.args[4] < last.args[2])
    => /\ last.res = "Ok"
       /\ \A x \in 0..last.args[1] - 1, y \in 0..last.args[2] - 1 :
             BlockAt(world, x, y) =
                 IF y < last.args[4] THEN "Stone"
                 ELSE IF y = last.args[4] THEN "Grass" ELSE "Air"

\* C14: for a valid world and 0 < grass_level < height, generate_flat returns
\* a World whose cells are Stone exactly in the rows below grass_level - 1 and
\* Grass exactly in row grass_level; row grass_level - 1 and the rows above
\* grass_level are Air.
C14_FlatStoneBelowGapRow ==
    (FlatOfValidWorld /\ 0 < last.args[4] /\ last.args[4] < last.args[2])
    => /\ last.res = "Ok"
       /\ \A x \in 0..last.args[1] - 1, y \in 0..last.args[2] - 1 :
             BlockAt(world, x, y) =
                 IF y < last.args[4] - 1 THEN "Stone"
                 ELSE IF y = last.args[4] THEN "Grass" ELSE "Air"

\* what get_list_of_players_loading_chunk(chunk_x, chunk_y) gives on W
ListOf(W, chunk_x, chunk_y) ==
    LET g == get_list_of_players_loading_chunk(W, chunk_x, chunk_y)
    IN  <<g.res, g.val>>

\* C17: a mark_chunk_loaded_by_id that returns Ok for a connected client on a
\* valid chunk changes nothing but subscriber lists; afterwards
\* get_list_of_players_loading_chunk of that chunk holds the client and gives
\* for every other valid chunk what it gave before; two distinct valid chunk
\* coordinates never address the same subscriber list.
C17_MarkChangesOnlyThatChunk ==
    (/\ last.op = "mark_chunk_loaded_by_id"
     /\ last.res = "Ok"
     /\ ValidChunk(before, last.args[1], last.args[2])
     /\ Contains(before.players, last.args[3]))
    => /\ world = [before EXCEPT !.player_loaded = world.player_loaded]
       /\ LET g == get_list_of_players_loading_chunk(world, last.args[1], last.args[2])
          IN  g.res = "Ok" /\ Contains(g.val[1], last.args[3])
       /\ \A chunk_x \in 0..before.width_chunks - 1,
             chunk_y \in 0..before.height_chunks - 1 :
             <<chunk_x, chunk_y>> # <<last.args[1], last.args[2]>>
             => /\ ListOf(world, chunk_x, chunk_y) = ListOf(before, chunk_x, chunk_y)
                /\ chunk_index(before, chunk_x, chunk_y)
                       # chunk_index(before, last.args[1], last.args[2])

\* C19: no chunk's subscriber list holds the same id twice.
C19_NoDuplicateSubscriber ==
    \A i \in 1..Len(world.player_loaded) :
        \A j, k \in 1..Len(world.player_loaded[i]) :
            world.player_loaded[i][j] = world.player_loaded[i][k] => j = k

\* C19 witness: a mark_chunk_loaded_by_id for an id already in the list was
\* answered with ChunkAlreadyLoaded and the list holds that id alone
C19_Witness ==
    /\ last.op = "mark_chunk_loaded_by_id"
    /\ last.res = "ChunkAlreadyLoaded"
    /\ InRange(chunk_index(world, last.args[1], last.args[2]), world.player_loaded)
    /\ world.player_loaded[chunk_index(world, last.args[1], last.args[2]) + 1]
          = <<last.args[3]>>

\* the variant with code c is C16_Variants[c + 1]
C16_Variants == <<"Air", "Grass", "Stone", "Log", "Leaves", "Water", "Wood">>

\* C16: encoding a Block gives the code of its variant (Air=0, Grass=1,
\* Stone=2, Log=3, Leaves=4, Water=5, Wood=6) and decoding that code gives the
\* Block back; decoding a code in 0..6 gives the variant with that code and
\* encoding it gives the code back; decoding any other u8 gives Air, and no
\* conversion fails.
C16_BlockRoundTrip ==
    /\ last.op = "Block_into_u8"
         => /\ last.res = "Ok"
            /\ last.val[1] \in 0..Len(C16_Variants) - 1
            /\ C16_Variants[last.val[1] + 1] = last.args[1]
            /\ u8_into_Block(last.val[1]) = last.args[1]
    /\ last.op = "u8_into_Block"
         => /\ last.res = "Ok"
            /\ IF last.args[1] \in 0..Len(C16_Variants) - 1
               THEN /\ last.val[1] = C16_Variants[last.args[1] + 1]
                    /\ Block_into_u8(last.val[1]) = last.args[1]
               ELSE last.val[1] = "Air"

\* C16 witness: the largest u8 was decoded, to Air
C16_Witness ==
    /\ last.op = "u8_into_Block"
    /\ last.args[1] = U8Max
    /\ last.val[1] = "Air"

\* C15: whatever the number of workers and the order in which they make the
\* chunks, generate_empty returns the World a sequential pass over the
\* indices in row-major order returns: chunk i has the coordinates
\* (i mod width_chunks, i div width_chunks) and only Air, and every
\* subscriber list is empty.
C15_GenerationOrderIndependent ==
    (pc = "returned" /\ par.op = "generate_empty")
    => /\ world = generate_empty(par.args[1], par.args[2], par.args[3]).world
       /\ Len(world.chunks) = world.width_chunks * world.height_chunks
       /\ \A i \in 1..Len(world.chunks) :
             world.chunks[i] = Chunk_empty(world.chunk_size,
                                           (i - 1) % world.width_chunks,
                                           (i - 1) \div world.width_chunks)
       /\ \A i \in 1..Len(world.player_loaded) : world.player_loaded[i] = <<>>

\* C15 witness: two workers made the chunks of a world that is not square,
\* the last chunk first
C15_Witness ==
    /\ pc = "returned"
    /\ par.op = "generate_empty"
    /\ par.workers = 2
    /\ world.width_chunks # world.height_chunks
    /\ par.order[1] = Len(world.chunks) - 1
    /\ par.order[Len(par.order)] = 0

\* C20: whatever the number of workers and the order in which they visit the
\* lists, unload_all_for(id) leaves the table it had before with id removed
\* from every list, the other ids and their order kept, and the chunks and
\* players untouched; calling it again changes nothing.
C20_UnloadOrderIndependent ==
    (pc = "returned" /\ par.op = "unload_all_for")
    => /\ last.res = "Ok"
       /\ world = unload_all_for(before, par.args[1]).world
       /\ world.chunks = before.chunks
       /\ world.players = before.players
       /\ Len(world.player_loaded) = Len(before.player_loaded)
       /\ \A i \in 1..Len(before.player_loaded) :
             world.player_loaded[i] =
                 SelectSeq(before.player_loaded[i], LAMBDA con : con # par.args[1])
       /\ last.rep >= 2 => world = before

\* C20 witness: two workers visited the lists, the last list first, and the
\* id was in a list other than the first
C20_Witness ==
    /\ pc = "returned"
    /\ par.op = "unload_all_for"
    /\ par.workers = 2
    /\ par.order[1] = Len(world.player_loaded) - 1
    /\ \E i \in 2..Len(before.player_loaded) :
          Contains(before.player_loaded[i], par.args[1])
    /\ Absent(world, par.args[1])

\* C18: when ids are connected once and a client is removed only after
\* unload_all_for for its id, every id in every subscriber list is the id of
\* a client in players, and get_list_of_players_loading_chunk on a valid
\* chunk finds a client for every id of the list it reads: it returns the
\* list, unless the index of the chunk is out of range of the table.
C18_SubscribersAreConnected ==
    /\ \A i \in 1..Len(world.player_loaded) :
          \A j \in 1..Len(world.player_loaded[i]) :
              Contains(world.players, world.player_loaded[i][j])
    /\ \A j, k \in 1..Len(world.players) :
          world.players[j] = world.players[k] => j = k
    /\ (/\ last.op = "get_list_of_players_loading_chunk"
        /\ ValidChunk(before, last.args[1], last.args[2]))
       => LET idx == chunk_index(before, last.args[1], last.args[2])
          IN  IF InRange(idx, before.player_loaded)
              THEN /\ last.res = "Ok"
                   /\ last.val[1] = before.player_loaded[idx + 1]
              ELSE last.res = "Panic"

\* C18 witness: a client that had subscribed to a chunk was removed after
\* unload_all_for for its id
C18_Witness ==
    /\ last.op = "disconnect"
    /\ Contains(before.players, last.args[1])
    /\ ~Absent(before, last.args[1])
    /\ ~Contains(world.players, last.args[1])
    /\ Absent(world, last.args[1])

====
